---- MODULE Spec2Model ----
(***************************************************************************)
(* The generation orchestrator of the AI Content Creator Tool (App): the   *)
(* settings fields, the five result fields, the per-operation busy flags,  *)
(* the shared error message, and the four operations wrapped by            *)
(* withErrorHandling.  A click runs its handler up to the first await; a   *)
(* service response runs the continuation up to the next await.  The       *)
(* browser runs each of these to completion before the next event.         *)
(***************************************************************************)
EXTENDS Integers, Sequences, FiniteSets, TLC

(* ----------------------------- bounds ---------------------------------- *)

\* Longest outline the service returns in the model.
MaxOutlineLen == 2

\* Generation runs the user starts (clicks that pass the gate) in a session
\* in which only the title field is edited.
MaxRuns == 2

\* Generation runs the user starts in a session in which the model selector
\* and the key fields are edited too.
MaxRunsAnySettings == 1

\* Longest outline already stored when a session of script generation runs
\* starts, and the number of runs of such a session.
MaxChapters == 12

MaxRunsTargets == 1

\* Generation runs the user starts in a session in which nothing is edited:
\* enough for all four operations to be in flight together.
MaxRunsBusy == 4

\* Most rows of an exported table.
MaxRows == 2

\* Longest string handed to slugify, the claim's example apart.
MaxSlugLen == 3

(* ------------------------ values of the program ------------------------ *)

\* The <option> values of the model selector, as character sequences so that
\* startsWith is computed on them.
GeminiPro == <<"g","e","m","i","n","i","-","3","-","p","r","o","-","p","r","e","v","i","e","w">>

GeminiFlash == <<"g","e","m","i","n","i","-","3","-","f","l","a","s","h","-","p","r","e","v","i","e","w">>

GptAuto == <<"g","p","t","-","5",".","2","-","a","u","t","o">>

GptInstant == <<"g","p","t","-","5",".","2","-","i","n","s","t","a","n","t">>

GptThinking == <<"g","p","t","-","5",".","2","-","t","h","i","n","k","i","n","g">>

GptPro == <<"g","p","t","-","5",".","2","-","p","r","o">>

Models == {GeminiPro, GeminiFlash, GptAuto, GptInstant, GptThinking, GptPro}

GeminiModels == {GeminiPro, GeminiFlash}

\* keyof LoadingStates
Ops == {"outline", "seo", "script", "prompts"}

INITIAL_LOADING_STATES == [op \in Ops |-> FALSE]

\* What the user can type into the title field and the two key fields.
BookTitles == {"", "Nha Gia Kim"}

ApiKeys == {"", "sk-key"}

\* What the service can answer.
ChapterTitles == {"Hook", "Intro"}

\* One parsed item of an outline response: title (focus and actions travel
\* with it and are never inspected); the JSON may carry an index of its own.
ResponseItems == [title : ChapterTitles] \cup {[title |-> "Intro", index |-> 9]}

RECURSIVE SeqsUpTo(_, _)
SeqsUpTo(S, n) ==
  IF n = 0 THEN {<<>>}
  ELSE LET shorter == SeqsUpTo(S, n - 1)
       IN  shorter \cup {Append(s, e) : s \in {t \in shorter : Len(t) = n - 1}, e \in S}

OutlineResponses == SeqsUpTo(ResponseItems, MaxOutlineLen)

ScriptTexts == {"", "Xin chao"}

SeoResponses == {"seo-A", "seo-B"}

VideoResponses == {<<"v1">>, <<"v1", "v2">>}

ThumbResponses == {<<"t1">>, <<"t2">>}

\* useState<SEOResult | null>(null)
NoSeo == "null"

(* error: string | null *)
NoError == [kind |-> "null", key |-> "-"]

TitleError == [kind |-> "title", key |-> "-"]

OpenAIKeyError == [kind |-> "openai-key", key |-> "-"]

RunError(key) == [kind |-> "run", key |-> key]

(* ------------------------------ state ---------------------------------- *)

VARIABLES
  bookTitle, durationMin, selectedModel, apiKeyGemini, apiKeyOpenAI,
  outline, seo, scriptBlocks, videoPrompts, thumbTextIdeas,
  loading, error,
  requests,      \* service requests in flight whose promise a run awaits
  abandoned,     \* requests in flight whose Promise.all has already rejected
  scriptRun,     \* locals of the handleGenerateScript call in flight
  promptsRun,    \* the Promise.all of the handleGeneratePrompts call in flight
  atClick,       \* history: result fields as they were when the run in flight was clicked,
                 \* and whether the page has been loaded again since the session began
  promptsOrigin, \* history: which prompts run wrote each of the two prompt lists
  runsLeft,      \* clicks that may still pass the gate in this session
  localStorage,  \* the browser's storage for this origin: the two key items
  csv,           \* the last call of downloadCSV: its rows and the content of its blob
  slug           \* the last call of slugify: its argument and its result

settings == <<bookTitle, durationMin, selectedModel, apiKeyGemini, apiKeyOpenAI>>

results == <<outline, seo, scriptBlocks, videoPrompts, thumbTextIdeas>>

runs == <<requests, abandoned, scriptRun, promptsRun>>

history == <<atClick, promptsOrigin, runsLeft>>

\* What lies outside the React state of the component.
outside == <<localStorage, csv, slug>>

vars == <<settings, results, loading, error, runs, history, outside>>

(* ---------------------------- helpers ---------------------------------- *)

\* String.prototype.startsWith
StartsWith(s, prefix) ==
  Len(s) >= Len(prefix) /\ SubSeq(s, 1, Len(prefix)) = prefix

\* Faulty variant: indices counted from the end.
IndexedFlipped(result) ==
  [i \in 1..Len(result) |-> [title |-> result[i].title, index |-> Len(result) - i]]

\* result.map((item, index) => ({ ...item, index }))
Indexed(result) ==
  [i \in 1..Len(result) |-> [title |-> result[i].title, index |-> i - 1]]

NoArg == [title |-> "-", index |-> -1]

\* process.env.API_KEY, fixed when the bundle is built: the key of the one
\* client `ai` every service function calls.
EnvApiKey == "env-key"

\* ai.models.generateContent({ model, contents }): what reaches the service,
\* tagged with the operation whose handler awaits it.  The prompt is kept as
\* the outline item and the character target interpolated into it.
Request(op, fn, model, arg, targetChars) ==
  [op |-> op, fn |-> fn, model |-> model, apiKey |-> EnvApiKey,
   arg |-> arg, targetChars |-> targetChars]

\* The five service functions, called by the handlers with the selected
\* model and the Gemini key as trailing arguments.  Their parameter lists end
\* before these two, so they are dropped; the model is the literal in each
\* function's body.
generateOutline(op, passedModel, passedKey) ==
  Request(op, "generateOutline", GeminiPro, NoArg, -1)

generateSEO(passedModel, passedKey) ==
  Request("seo", "generateSEO", GeminiPro, NoArg, -1)

generateScriptBlock(item, targetChars, passedModel, passedKey) ==
  Request("script", "generateScriptBlock", GeminiFlash, item, targetChars)

generateVideoPrompts(passedModel, passedKey) ==
  Request("prompts", "generateVideoPrompts", GeminiFlash, NoArg, -1)

generateThumbIdeas(passedModel, passedKey) ==
  Request("prompts", "generateThumbIdeas", GeminiFlash, NoArg, -1)

IdleScriptRun ==
  [pc |-> "idle", outline |-> <<>>, currentOutline |-> <<>>, pos |-> 0, sent |-> <<>>,
   totalCharsTarget |-> 0, charsPerBlock |-> 0]

Pending == [state |-> "pending", value |-> <<>>]

Fulfilled(v) == [state |-> "fulfilled", value |-> v]

IdlePromptsRun == [pc |-> "idle", video |-> Pending, thumbs |-> Pending, no |-> 0]

NoSnapshot ==
  [seo |-> NoSeo, scriptBlocks |-> <<>>, videoPrompts |-> <<>>, thumbTextIdeas |-> <<>>,
   durationMin |-> 0, reloaded |-> FALSE]

\* localStorage.getItem of a key that was never set
NoItem == "null"

NoItems == [nd_gemini_api_key |-> NoItem, nd_openai_api_key |-> NoItem]

NoDownload == [rows |-> <<>>, content |-> <<>>]

NoSlug == [s |-> <<>>, result |-> <<>>, returned |-> FALSE]

(* ------------------------------- Init ---------------------------------- *)

\* The state after the first render, with the session's budget of runs;
\* Rendered is the same with a title typed and an outline generated before
\* the session starts.
Rendered(budget, title, stored) ==
  /\ bookTitle = title
  /\ durationMin = 240
  /\ selectedModel = GeminiPro
  /\ apiKeyGemini = ""
  /\ apiKeyOpenAI = ""
  /\ outline = stored
  /\ seo = NoSeo
  /\ scriptBlocks = <<>>
  /\ videoPrompts = <<>>
  /\ thumbTextIdeas = <<>>
  /\ loading = INITIAL_LOADING_STATES
  /\ error = NoError
  /\ requests = {}
  /\ abandoned = {}
  /\ scriptRun = IdleScriptRun
  /\ promptsRun = IdlePromptsRun
  /\ atClick = NoSnapshot
  /\ promptsOrigin = [video |-> 0, thumbs |-> 0]
  /\ runsLeft = budget

\* Nothing stored in the browser, nothing exported yet.
Untouched ==
  /\ localStorage = NoItems
  /\ csv = NoDownload
  /\ slug = NoSlug

Startup(budget) == Rendered(budget, "", <<>>) /\ Untouched

Init == Startup(MaxRuns)

(* -------------------------- settings fields ---------------------------- *)

SetBookTitle ==
  \E t \in BookTitles :
    /\ t # bookTitle
    /\ bookTitle' = t
    /\ UNCHANGED <<durationMin, selectedModel, apiKeyGemini, apiKeyOpenAI, results, loading, error, runs, history, outside>>

Max(a, b) == IF a >= b THEN a ELSE b

Min(a, b) == IF a <= b THEN a ELSE b

\* const clamp = (n, lo, hi) => Math.max(lo, Math.min(hi, n))
clamp(n, lo, hi) == Max(lo, Min(hi, n))

\* What the user can leave in the duration field, as parseInt(e.target.value || '0')
\* reads it: nothing, a number inside the range, the largest one, one beyond it.
DurationInputs == {0, 7, 240, 999}

\* onChange={(e) => setDurationMin(clamp(parseInt(e.target.value || '0'), 5, 240))}
SetDurationMin ==
  \E n \in DurationInputs :
    /\ clamp(n, 5, 240) # durationMin
    /\ durationMin' = clamp(n, 5, 240)
    /\ UNCHANGED <<bookTitle, selectedModel, apiKeyGemini, apiKeyOpenAI, results, loading, error, runs, history, outside>>

SetSelectedModel ==
  \E m \in Models :
    /\ m # selectedModel
    /\ selectedModel' = m
    /\ UNCHANGED <<bookTitle, durationMin, apiKeyGemini, apiKeyOpenAI, results, loading, error, runs, history, outside>>

SetApiKeyGemini ==
  \E k \in ApiKeys :
    /\ k # apiKeyGemini
    /\ apiKeyGemini' = k
    /\ UNCHANGED <<bookTitle, durationMin, selectedModel, apiKeyOpenAI, results, loading, error, runs, history, outside>>

SetApiKeyOpenAI ==
  \E k \in ApiKeys :
    /\ k # apiKeyOpenAI
    /\ apiKeyOpenAI' = k
    /\ UNCHANGED <<bookTitle, durationMin, selectedModel, apiKeyGemini, results, loading, error, runs, history, outside>>

(* ----------------------------- stored keys ---------------------------- *)

\* localStorage.setItem("nd_gemini_api_key", apiKeyGemini);
\* localStorage.setItem("nd_openai_api_key", apiKeyOpenAI)
handleSaveKeys ==
  /\ localStorage' = [nd_gemini_api_key |-> apiKeyGemini, nd_openai_api_key |-> apiKeyOpenAI]
  /\ UNCHANGED <<settings, results, loading, error, runs, history, csv, slug>>

\* Faulty variant: the stored item is never taken.
LoadedNever(item) == ""

\* if (storedGeminiKey) setApiKeyGemini(storedGeminiKey): the key in memory
\* after the mount effect, "" being the useState default.
Loaded(item) == IF item # NoItem /\ item # "" THEN item ELSE ""

\* The page is loaded again: the requests in flight die with the old page,
\* every useState starts from its default and the mount effect reads the two
\* items.
Reload ==
  /\ bookTitle' = ""
  /\ durationMin' = 240
  /\ selectedModel' = GeminiPro
  /\ apiKeyGemini' = Loaded(localStorage.nd_gemini_api_key)
  /\ apiKeyOpenAI' = Loaded(localStorage.nd_openai_api_key)
  /\ outline' = <<>>
  /\ seo' = NoSeo
  /\ scriptBlocks' = <<>>
  /\ videoPrompts' = <<>>
  /\ thumbTextIdeas' = <<>>
  /\ loading' = INITIAL_LOADING_STATES
  /\ error' = NoError
  /\ requests' = {}
  /\ abandoned' = {}
  /\ scriptRun' = IdleScriptRun
  /\ promptsRun' = IdlePromptsRun
  /\ atClick' = [NoSnapshot EXCEPT !.reloaded = TRUE]
  /\ promptsOrigin' = [video |-> 0, thumbs |-> 0]
  /\ UNCHANGED <<runsLeft, outside>>

(* --------------------------- withErrorHandling ------------------------- *)

\* Faulty variants of the gate.
GateTitleOnly ==
  IF bookTitle = "" THEN TitleError ELSE NoError

GateNoChecks == NoError

\* The message the gate sets, NoError when the gate lets the call through.
Gate ==
  IF bookTitle = "" THEN TitleError
  ELSE IF StartsWith(selectedModel, <<"g","p","t">>) /\ apiKeyOpenAI = "" THEN OpenAIKeyError
  ELSE NoError

\* A click on the operation's button (disabled while the operation is busy)
\* that the gate turns away.
Blocked(key) ==
  /\ ~loading[key]
  /\ Gate # NoError
  /\ error' = Gate
  /\ UNCHANGED <<settings, outside, results, loading, runs, history>>

\* Faulty variant: the button is not disabled while the operation is busy.
EnteredWhileBusy(key) ==
  /\ Gate = NoError
  /\ runsLeft > 0
  /\ runsLeft' = runsLeft - 1
  /\ error' = NoError
  /\ loading' = [loading EXCEPT ![key] = TRUE]

\* setError(null); setLoading(prev => ({ ...prev, [key]: true }))
Entered(key) ==
  /\ ~loading[key]
  /\ Gate = NoError
  /\ runsLeft > 0
  /\ runsLeft' = runsLeft - 1
  /\ error' = NoError
  /\ loading' = [loading EXCEPT ![key] = TRUE]

\* Faulty variants of the catch and finally blocks, for the checks of the
\* claims about failures.
CaughtSilently(key) ==
  /\ UNCHANGED error
  /\ loading' = [loading EXCEPT ![key] = FALSE]

CaughtStaysBusy(key) ==
  /\ error' = RunError(key)
  /\ UNCHANGED loading

\* catch: setError(...); finally: setLoading(prev => ({ ...prev, [key]: false }))
Caught(key) ==
  /\ error' = RunError(key)
  /\ loading' = [loading EXCEPT ![key] = FALSE]

\* Faulty variant: finally leaves the flag set.
ReturnedStaysBusy(key) == UNCHANGED <<loading, error>>

\* Faulty variant: the flags are written back from the initial object, the
\* flags of the other operations lost.
ReturnedFromInitial(key) ==
  /\ loading' = [INITIAL_LOADING_STATES EXCEPT ![key] = FALSE]
  /\ UNCHANGED error

\* Faulty variant: a run that ends well takes the error message away.
ReturnedClearsError(key) ==
  /\ loading' = [loading EXCEPT ![key] = FALSE]
  /\ error' = NoError

\* finally after a normal return
Returned(key) ==
  /\ loading' = [loading EXCEPT ![key] = FALSE]
  /\ UNCHANGED error


(* ------------------------------ downloadCSV --------------------------- *)

\* Characters: a string is the sequence of its characters.
Quote == "\""

Comma == ","

CR == "CR"

LF == "LF"

BOM == "U+FEFF"

\* Faulty variant: quotes inside a field are left single.
ReplaceQuotesKept(v) == v

\* v.replace(/"/g, '""')
RECURSIVE ReplaceQuotes(_)
ReplaceQuotes(v) ==
  IF v = <<>> THEN <<>>
  ELSE (IF Head(v) = Quote THEN <<Quote, Quote>> ELSE <<Head(v)>>) \o ReplaceQuotes(Tail(v))

\* Array.prototype.join
RECURSIVE join(_, _)
join(parts, separator) ==
  IF Len(parts) = 0 THEN <<>>
  ELSE IF Len(parts) = 1 THEN parts[1]
  ELSE parts[1] \o separator \o join(Tail(parts), separator)

\* const processRow = (row) => row.map(v => `"${(v ?? "").replace(/"/g, '""')}"`).join(",")
processRow(row) ==
  join([i \in 1..Len(row) |-> <<Quote>> \o ReplaceQuotes(row[i]) \o <<Quote>>], <<Comma>>)

\* const csvContent = "\uFEFF" + rows.map(processRow).join("\r\n")
csvContent(rows) ==
  <<BOM>> \o join([i \in 1..Len(rows) |-> processRow(rows[i])], <<CR, LF>>)

\* The fields of the rows handed to downloadCSV: plain, with a comma, with a
\* quote.
CsvFields == {<<"a">>, <<"b">>, <<"c", Comma, "d">>, <<"e", Quote, "f">>}

\* Rows of two columns, as exportPromptCSV builds them.
CsvRows == {<<number, prompt>> : number \in CsvFields, prompt \in CsvFields}

CsvRowLists == SeqsUpTo(CsvRows, MaxRows) \ {<<>>}

\* downloadCSV(filename, rows): the content of the blob handed to the browser.
downloadCSV ==
  /\ csv.content = <<>>
  /\ csv' = [csv EXCEPT !.content = csvContent(csv.rows)]
  /\ UNCHANGED <<settings, results, loading, error, runs, history, localStorage, slug>>

(* -------------------------------- slugify ------------------------------ *)

\* Characters are named by themselves when they are ASCII and by their code
\* point otherwise: U+00E0 a with grave, U+1EA3 a with hook above, U+0111 d
\* with stroke, U+0300 combining grave, U+0309 combining hook above.
Letters ==
  {"a","b","c","d","e","f","g","h","i","j","k","l","m",
   "n","o","p","q","r","s","t","u","v","w","x","y","z"}

Digits == {"0","1","2","3","4","5","6","7","8","9"}

Hyphen == "-"

\* String.prototype.toLowerCase, on the capitals of the inputs
toLowerCase(s) ==
  [i \in 1..Len(s) |->
     CASE s[i] = "A" -> "a"
       [] s[i] = "N" -> "n"
       [] s[i] = "G" -> "g"
       [] s[i] = "K" -> "k"
       [] OTHER -> s[i]]

\* The canonical decomposition of one character.
Decomposed(c) ==
  CASE c = "U+00E0" -> <<"a", "U+0300">>
    [] c = "U+1EA3" -> <<"a", "U+0309">>
    [] OTHER -> <<c>>

\* String.prototype.normalize('NFD')
RECURSIVE normalizeNFD(_)
normalizeNFD(s) ==
  IF s = <<>> THEN <<>> ELSE Decomposed(Head(s)) \o normalizeNFD(Tail(s))

\* \p{Diacritic}, among the characters of the inputs
Diacritic == {"U+0300", "U+0309"}

IsDiacritic(c) == c \in Diacritic

IsNotDiacritic(c) == c \notin Diacritic

\* .replace(/\p{Diacritic}/gu, '')
StripDiacritics(s) == SelectSeq(s, IsNotDiacritic)

IsAlnum(c) == c \in Letters \cup Digits

\* .replace(/[^a-z0-9]+/g, '-'): each maximal run of other characters
\* becomes one hyphen.
RECURSIVE ReplaceRuns(_)
ReplaceRuns(s) ==
  IF s = <<>> THEN <<>>
  ELSE IF IsAlnum(Head(s)) THEN <<Head(s)>> \o ReplaceRuns(Tail(s))
  ELSE IF Len(s) >= 2 /\ ~IsAlnum(s[2]) THEN ReplaceRuns(Tail(s))
  ELSE <<Hyphen>> \o ReplaceRuns(Tail(s))

\* Faulty variant: the hyphens at the ends are kept.
TrimHyphensKept(s) == s

\* .replace(/(^-|-$)/g, ''): a hyphen at the start is removed, and a hyphen
\* at the end of what is left.
TrimHyphens(s) ==
  LET t == IF s # <<>> /\ Head(s) = Hyphen THEN Tail(s) ELSE s
  IN  IF t # <<>> /\ t[Len(t)] = Hyphen THEN SubSeq(t, 1, Len(t) - 1) ELSE t

ndgroup == <<"n","d","g","r","o","u","p">>

\* (s || "ndgroup").toLowerCase().normalize('NFD').replace(...).replace(...).replace(...)
Slugified(s) ==
  TrimHyphens(ReplaceRuns(StripDiacritics(normalizeNFD(toLowerCase(
    IF s = <<>> THEN ndgroup ELSE s)))))

\* "Nha Gia Kim" with its two accented letters.
NhaGiaKim == <<"N","h","U+00E0"," ","G","i","U+1EA3"," ","K","i","m">>

\* The characters of the strings handed to slugify.
SlugChars == {"a", "A", "1", Hyphen, " ", "U+00E0", "U+0300", "U+0111"}

SlugInputs == SeqsUpTo(SlugChars, MaxSlugLen) \cup {NhaGiaKim}

\* A call of slugify.
slugify ==
  /\ ~slug.returned
  /\ slug' = [slug EXCEPT !.result = Slugified(slug.s), !.returned = TRUE]
  /\ UNCHANGED <<settings, results, loading, error, runs, history, localStorage, csv>>

(* ------------------------- handleGenerateOutline ----------------------- *)

OutlineRequest == generateOutline("outline", selectedModel, apiKeyGemini)

ClickOutline ==
  \/ Blocked("outline")
  \/ /\ Entered("outline")
     /\ requests' = requests \cup {OutlineRequest}
     /\ UNCHANGED <<settings, outside, results, abandoned, scriptRun, promptsRun, atClick, promptsOrigin>>

\* Faulty variant: storing the outline also empties the script block list.
OutlineResolvedClearsBlocks(result) ==
    /\ OutlineRequest \in requests
    /\ requests' = requests \ {OutlineRequest}
    /\ outline' = Indexed(result)
    /\ scriptBlocks' = <<>>
    /\ Returned("outline")
    /\ UNCHANGED <<settings, outside, seo, videoPrompts, thumbTextIdeas,
                   abandoned, scriptRun, promptsRun, history>>

OutlineResolvedWith(result) ==
    /\ OutlineRequest \in requests
    /\ requests' = requests \ {OutlineRequest}
    /\ outline' = Indexed(result)
    /\ Returned("outline")
    /\ UNCHANGED <<settings, outside, seo, scriptBlocks, videoPrompts, thumbTextIdeas,
                   abandoned, scriptRun, promptsRun, history>>

OutlineResolved == \E result \in OutlineResponses : OutlineResolvedWith(result)

\* the service call throws: transport failure or JSON.parse failure
OutlineRejected ==
  /\ OutlineRequest \in requests
  /\ requests' = requests \ {OutlineRequest}
  /\ Caught("outline")
  /\ UNCHANGED <<settings, outside, results, abandoned, scriptRun, promptsRun, history>>

(* --------------------------- handleGenerateSEO ------------------------- *)

SeoRequest == generateSEO(selectedModel, apiKeyGemini)

ClickSEO ==
  \/ Blocked("seo")
  \/ /\ Entered("seo")
     /\ requests' = requests \cup {SeoRequest}
     /\ atClick' = [atClick EXCEPT !.seo = seo]
     /\ UNCHANGED <<settings, outside, results, abandoned, scriptRun, promptsRun, promptsOrigin>>

SEOResolved ==
  \E result \in SeoResponses :
    /\ SeoRequest \in requests
    /\ requests' = requests \ {SeoRequest}
    /\ seo' = result
    /\ Returned("seo")
    /\ atClick' = [atClick EXCEPT !.seo = NoSeo]
    /\ UNCHANGED <<settings, outside, outline, scriptBlocks, videoPrompts, thumbTextIdeas,
                   abandoned, scriptRun, promptsRun, promptsOrigin, runsLeft>>

SEORejected ==
  /\ SeoRequest \in requests
  /\ requests' = requests \ {SeoRequest}
  /\ Caught("seo")
  /\ atClick' = [atClick EXCEPT !.seo = NoSeo]
  /\ UNCHANGED <<settings, outside, results, abandoned, scriptRun, promptsRun, promptsOrigin, runsLeft>>

(* ------------------------- handleGeneratePrompts ----------------------- *)

VideoRequest == generateVideoPrompts(selectedModel, apiKeyGemini)

ThumbRequest == generateThumbIdeas(selectedModel, apiKeyGemini)

PromptRequests == {VideoRequest, ThumbRequest}

\* Promise.all([generateVideoPrompts(...), generateThumbIdeas(...)]): both
\* requests leave before the handler awaits.
ClickPrompts ==
  \/ Blocked("prompts")
  \/ /\ Entered("prompts")
     /\ requests' = requests \cup PromptRequests
     /\ promptsRun' = [pc |-> "await", video |-> Pending, thumbs |-> Pending,
                       no |-> 1 - promptsOrigin.video]
     /\ atClick' = [atClick EXCEPT !.videoPrompts = videoPrompts,
                                   !.thumbTextIdeas = thumbTextIdeas]
     /\ UNCHANGED <<settings, outside, results, abandoned, scriptRun, promptsOrigin>>

\* Faulty variant: each list is set as soon as its own request is fulfilled.
JoinEager(run) ==
  /\ videoPrompts' = IF run.video.state = "fulfilled" THEN run.video.value ELSE videoPrompts
  /\ thumbTextIdeas' = IF run.thumbs.state = "fulfilled" THEN run.thumbs.value ELSE thumbTextIdeas
  /\ promptsOrigin' = [video  |-> IF run.video.state = "fulfilled" THEN run.no ELSE promptsOrigin.video,
                       thumbs |-> IF run.thumbs.state = "fulfilled" THEN run.no ELSE promptsOrigin.thumbs]
  /\ IF run.video.state = "fulfilled" /\ run.thumbs.state = "fulfilled"
     THEN /\ promptsRun' = IdlePromptsRun
          /\ Returned("prompts")
          /\ atClick' = [atClick EXCEPT !.videoPrompts = <<>>, !.thumbTextIdeas = <<>>]
     ELSE /\ promptsRun' = run
          /\ UNCHANGED <<loading, error, atClick>>

\* What the handler does with the Promise.all once one more of its promises
\* is fulfilled: nothing until both are, then both setters in one go.
Join(run) ==
  IF run.video.state = "fulfilled" /\ run.thumbs.state = "fulfilled"
  THEN /\ videoPrompts' = run.video.value
       /\ thumbTextIdeas' = run.thumbs.value
       /\ promptsOrigin' = [video |-> run.no, thumbs |-> run.no]
       /\ promptsRun' = IdlePromptsRun
       /\ Returned("prompts")
       /\ atClick' = [atClick EXCEPT !.videoPrompts = <<>>, !.thumbTextIdeas = <<>>]
  ELSE /\ promptsRun' = run
       /\ UNCHANGED <<videoPrompts, thumbTextIdeas, promptsOrigin, loading, error, atClick>>

VideoPromptsResolved ==
  \E result \in VideoResponses :
    /\ VideoRequest \in requests
    /\ requests' = requests \ {VideoRequest}
    /\ Join([promptsRun EXCEPT !.video = Fulfilled(result)])
    /\ UNCHANGED <<settings, outside, outline, seo, scriptBlocks, abandoned, scriptRun, runsLeft>>

ThumbIdeasResolved ==
  \E result \in ThumbResponses :
    /\ ThumbRequest \in requests
    /\ requests' = requests \ {ThumbRequest}
    /\ Join([promptsRun EXCEPT !.thumbs = Fulfilled(result)])
    /\ UNCHANGED <<settings, outside, outline, seo, scriptBlocks, abandoned, scriptRun, runsLeft>>

\* The first rejection rejects the Promise.all: the handler's catch and
\* finally run, the other request stays in flight and nobody awaits it.
PromptsRejected ==
  \E failed \in PromptRequests :
    /\ failed \in requests
    /\ requests' = requests \ PromptRequests
    /\ abandoned' = abandoned \cup (requests \cap (PromptRequests \ {failed}))
    /\ promptsRun' = IdlePromptsRun
    /\ Caught("prompts")
    /\ atClick' = [atClick EXCEPT !.videoPrompts = <<>>, !.thumbTextIdeas = <<>>]
    /\ UNCHANGED <<settings, outside, results, scriptRun, promptsOrigin, runsLeft>>

\* An abandoned request ends, fulfilled or rejected: no handler is attached.
AbandonedSettled ==
  \E r \in abandoned :
    /\ abandoned' = abandoned \ {r}
    /\ UNCHANGED <<settings, outside, results, loading, error, requests, scriptRun, promptsRun, history>>

(* ------------------------- handleGenerateScript ------------------------ *)

ScriptOutlineRequest == generateOutline("script", selectedModel, apiKeyGemini)

BlockRequest(item, charsPerBlock) ==
  generateScriptBlock(item, charsPerBlock, selectedModel, apiKeyGemini)

\* const totalCharsTarget = useMemo(() => durationMin * 1000, [durationMin])
totalCharsTarget == durationMin * 1000

\* x / 0 for x > 0, and Math.round of it: Infinity, which is no integer and
\* is written -1 here.
Infinity == -1

\* Faulty variant: the quotient is truncated.
CharsPerBlockTruncated(total, totalWeight) ==
  IF totalWeight = 0 THEN Infinity ELSE total \div totalWeight

\* Math.round(totalCharsTarget / totalWeight): the quotient rounded to the
\* nearest integer, a half rounded up.
CharsPerBlock(total, totalWeight) ==
  IF totalWeight = 0 THEN Infinity ELSE (2 * total + totalWeight) \div (2 * totalWeight)

\* const totalWeight = currentOutline.length; const charsPerBlock = ...
WithTarget(run) ==
  [run EXCEPT !.charsPerBlock = CharsPerBlock(run.totalCharsTarget, Len(run.currentOutline))]

\* Faulty variant: the block keeps the item's 0-based index.
NewBlockZeroBased(item, text) ==
  [index |-> item.index, chapter |-> item.title, text |-> text, chars |-> Len(text)]

\* Faulty variant: the block's count is the target that was requested.
NewBlockCharsFromTarget(item, text) ==
  [index |-> item.index + 1, chapter |-> item.title, text |-> text,
   chars |-> scriptRun.charsPerBlock]

\* const newBlock: ScriptBlock = { index: item.index + 1, chapter: item.title, text, chars: text.length }
NewBlock(item, text) ==
  [index |-> item.index + 1, chapter |-> item.title, text |-> text, chars |-> Len(text)]

\* for (const item of currentOutline) { const text = await generateScriptBlock(item, ...) ... }
\* with pos items done: the loop is over when no item is left.
LoopEnds(run) == run.pos >= Len(run.currentOutline)

\* Faulty variant: the requests of all items leave together.
LoopAllAtOnce(run, inFlight) ==
  IF LoopEnds(run)
  THEN /\ requests' = inFlight
       /\ scriptRun' = IdleScriptRun
  ELSE IF run.pos = 0
  THEN LET all == [i \in 1..Len(run.currentOutline) |->
                      BlockRequest(run.currentOutline[i], run.charsPerBlock)]
       IN  /\ requests' = inFlight \cup {all[i] : i \in 1..Len(all)}
           /\ scriptRun' = [run EXCEPT !.pc = "block", !.pos = 1, !.sent = run.sent \o all]
  ELSE /\ requests' = inFlight
       /\ scriptRun' = [run EXCEPT !.pc = "block", !.pos = run.pos + 1]

\* One turn of the loop up to its await: the next item's request leaves.
Loop(run, inFlight) ==
  IF LoopEnds(run)
  THEN /\ requests' = inFlight
       /\ scriptRun' = IdleScriptRun
  ELSE LET item == run.currentOutline[run.pos + 1]
       IN  /\ requests' = inFlight \cup {BlockRequest(item, run.charsPerBlock)}
           /\ scriptRun' = [run EXCEPT !.pc = "block", !.pos = run.pos + 1,
                                       !.sent = Append(run.sent, BlockRequest(item, run.charsPerBlock))]

\* Faulty variant: dividing by an outline length of zero throws.
ContinueThrowsOnZero(run, inFlight) ==
  IF Len(run.currentOutline) = 0
  THEN /\ requests' = inFlight
       /\ scriptRun' = IdleScriptRun
       /\ Caught("script")
       /\ atClick' = [atClick EXCEPT !.scriptBlocks = <<>>, !.durationMin = 0]
  ELSE /\ Loop(run, inFlight)
       /\ IF LoopEnds(run)
          THEN /\ Returned("script")
               /\ atClick' = [atClick EXCEPT !.scriptBlocks = <<>>, !.durationMin = 0]
          ELSE UNCHANGED <<loading, error, atClick>>

\* The handler after an await that was fulfilled: into the loop, and out
\* through finally when the loop is over.
Continue(run, inFlight) ==
  /\ Loop(run, inFlight)
  /\ IF LoopEnds(run)
     THEN /\ Returned("script")
          /\ atClick' = [atClick EXCEPT !.scriptBlocks = <<>>, !.durationMin = 0]
     ELSE UNCHANGED <<loading, error, atClick>>

\* Faulty variant: an outline is generated at every run.
NeedsOutlineAlways(currentOutline) == TRUE

\* if (currentOutline.length === 0)
NeedsOutline(currentOutline) == Len(currentOutline) = 0

\* Faulty variant: the list of the run before is kept.
ClearedBlocksKept(blocks) == blocks

\* setScriptBlocks([]) as the handler starts
ClearedBlocks(blocks) == <<>>

ClickScript ==
  \/ Blocked("script")
  \/ /\ Entered("script")
     /\ scriptBlocks' = ClearedBlocks(scriptBlocks)
     /\ atClick' = [atClick EXCEPT !.scriptBlocks = scriptBlocks, !.durationMin = durationMin]
     /\ IF NeedsOutline(outline)
        THEN /\ requests' = requests \cup {ScriptOutlineRequest}
             /\ scriptRun' = [pc |-> "outline", outline |-> outline, currentOutline |-> outline,
                              pos |-> 0, sent |-> <<ScriptOutlineRequest>>,
                              totalCharsTarget |-> totalCharsTarget, charsPerBlock |-> 0]
        ELSE Loop(WithTarget([pc |-> "block", outline |-> outline, currentOutline |-> outline,
                              pos |-> 0, sent |-> <<>>,
                              totalCharsTarget |-> totalCharsTarget, charsPerBlock |-> 0]),
                  requests)
     /\ UNCHANGED <<settings, outside, outline, seo, videoPrompts, thumbTextIdeas,
                    abandoned, promptsRun, promptsOrigin>>

\* currentOutline = generatedOutline.map(...); setOutline(currentOutline)
ScriptOutlineResolvedWith(generatedOutline) ==
    /\ ScriptOutlineRequest \in requests
    /\ outline' = Indexed(generatedOutline)
    /\ Continue(WithTarget([scriptRun EXCEPT !.currentOutline = Indexed(generatedOutline)]),
                requests \ {ScriptOutlineRequest})
    /\ UNCHANGED <<settings, outside, seo, scriptBlocks, videoPrompts, thumbTextIdeas,
                   abandoned, promptsRun, promptsOrigin, runsLeft>>

ScriptOutlineResolved ==
  \E generatedOutline \in OutlineResponses : ScriptOutlineResolvedWith(generatedOutline)

ScriptOutlineRejected ==
  /\ ScriptOutlineRequest \in requests
  /\ requests' = requests \ {ScriptOutlineRequest}
  /\ scriptRun' = IdleScriptRun
  /\ Caught("script")
  /\ atClick' = [atClick EXCEPT !.scriptBlocks = <<>>, !.durationMin = 0]
  /\ UNCHANGED <<settings, outside, results, abandoned, promptsRun, promptsOrigin, runsLeft>>

\* The request the loop awaits.
Awaited(run) == BlockRequest(run.currentOutline[run.pos], run.charsPerBlock)

\* setScriptBlocks(prev => [...prev, newBlock])
ScriptBlockResolved ==
  \E text \in ScriptTexts :
    /\ scriptRun.pc = "block"
    /\ Awaited(scriptRun) \in requests
    /\ scriptBlocks' = Append(scriptBlocks, NewBlock(scriptRun.currentOutline[scriptRun.pos], text))
    /\ Continue(scriptRun, requests \ {Awaited(scriptRun)})
    /\ UNCHANGED <<settings, outside, outline, seo, videoPrompts, thumbTextIdeas,
                   abandoned, promptsRun, promptsOrigin, runsLeft>>

\* The awaited block request throws: the loop is left through catch and
\* finally, nothing is sent for the items that remain.
ScriptBlockRejected ==
  /\ scriptRun.pc = "block"
  /\ Awaited(scriptRun) \in requests
  /\ requests' = requests \ {Awaited(scriptRun)}
  /\ scriptRun' = IdleScriptRun
  /\ Caught("script")
  /\ atClick' = [atClick EXCEPT !.scriptBlocks = <<>>, !.durationMin = 0]
  /\ UNCHANGED <<settings, outside, results, abandoned, promptsRun, promptsOrigin, runsLeft>>

(* --------------------------- specifications ---------------------------- *)

Edit ==
  \/ SetSelectedModel
  \/ SetApiKeyGemini
  \/ SetApiKeyOpenAI

OutlineOp ==
  \/ ClickOutline
  \/ OutlineResolved
  \/ OutlineRejected

SeoOp ==
  \/ ClickSEO
  \/ SEOResolved
  \/ SEORejected

PromptsOp ==
  \/ ClickPrompts
  \/ VideoPromptsResolved
  \/ ThumbIdeasResolved
  \/ PromptsRejected
  \/ AbandonedSettled

ScriptOp ==
  \/ ClickScript
  \/ ScriptOutlineResolved
  \/ ScriptOutlineRejected
  \/ ScriptBlockResolved
  \/ ScriptBlockRejected

Generate ==
  \/ OutlineOp
  \/ SeoOp
  \/ PromptsOp
  \/ ScriptOp

\* A session in which the user types titles and runs the four operations,
\* the model selector and the key fields left as they are at startup.
Next ==
  \/ SetBookTitle
  \/ Generate

Spec == Init /\ [][Next]_vars

\* The same session with a service that answers: every request a handler
\* awaits is at some time fulfilled or rejected.
Responsive ==
  /\ WF_vars(OutlineResolved \/ OutlineRejected)
  /\ WF_vars(SEOResolved \/ SEORejected)
  /\ WF_vars(VideoPromptsResolved \/ ThumbIdeasResolved \/ PromptsRejected)
  /\ WF_vars(ScriptOutlineResolved \/ ScriptOutlineRejected)
  /\ WF_vars(ScriptBlockResolved \/ ScriptBlockRejected)

SpecResponsive == Init /\ [][Next]_vars /\ Responsive

\* A session in which the user also picks models and types keys.
InitAnySettings == Startup(MaxRunsAnySettings)

NextAnySettings ==
  \/ SetBookTitle
  \/ Edit
  \/ Generate

SpecAnySettings == InitAnySettings /\ [][NextAnySettings]_vars

\* A session that starts with an outline of any length up to MaxChapters
\* already stored and the title typed or not, in which the user edits the
\* duration and runs script generation.
StoredOutline(n) == Indexed([i \in 1..n |-> [title |-> "Hook"]])

InitScriptTargets ==
  \E title \in BookTitles, n \in 0..MaxChapters :
    Rendered(MaxRunsTargets, title, StoredOutline(n)) /\ Untouched

NextScriptTargets ==
  \/ SetDurationMin
  \/ ScriptOp

SpecScriptTargets == InitScriptTargets /\ [][NextScriptTargets]_vars

\* A session that starts with the title typed or not, in which the user
\* only runs the four operations.
InitBusy ==
  \E title \in BookTitles : Rendered(MaxRunsBusy, title, <<>>) /\ Untouched

NextBusy == Generate

SpecBusy == InitBusy /\ [][NextBusy]_vars

\* A session in which the user types titles and keys, saves the keys, loads
\* the page again and runs the four operations.
NextStorage ==
  \/ SetBookTitle
  \/ SetApiKeyGemini
  \/ SetApiKeyOpenAI
  \/ handleSaveKeys
  \/ Reload
  \/ Generate

SpecStorage == InitAnySettings /\ [][NextStorage]_vars

\* downloadCSV called with any table of up to MaxRows rows.
InitCsv ==
  /\ Rendered(0, "", <<>>)
  /\ localStorage = NoItems
  /\ slug = NoSlug
  /\ \E rows \in CsvRowLists : csv = [rows |-> rows, content |-> <<>>]

NextCsv == downloadCSV

SpecCsv == InitCsv /\ [][NextCsv]_vars

\* slugify called with any string of up to MaxSlugLen characters, or with
\* the example.
InitSlug ==
  /\ Rendered(0, "", <<>>)
  /\ localStorage = NoItems
  /\ csv = NoDownload
  /\ \E s \in SlugInputs : slug = [s |-> s, result |-> <<>>, returned |-> FALSE]

NextSlug == slugify

SpecSlug == InitSlug /\ [][NextSlug]_vars

(* ------------------------------ claims --------------------------------- *)

\* The click handler of each operation's button.
Click(key) ==
  CASE key = "outline" -> ClickOutline
    [] key = "seo"     -> ClickSEO
    [] key = "prompts" -> ClickPrompts
    [] key = "script"  -> ClickScript

InFlight == requests \cup abandoned

\* C1: for each of the four operations, a click while the book title is
\* empty sets the title error message, sends no request, leaves every busy
\* flag as it was and leaves the five result fields as they were.
C1_EmptyTitleBlocksEveryOperation ==
  [][\A key \in Ops :
       (bookTitle = "" /\ Click(key)) =>
         /\ error' = TitleError
         /\ InFlight' = InFlight
         /\ loading' = loading
         /\ ~loading'[key]
         /\ results' = results]_vars

\* A click was turned away for the empty title while results of earlier runs
\* were on screen.
C1_Witness ==
  /\ bookTitle = ""
  /\ error = TitleError
  /\ seo # NoSeo
  /\ scriptBlocks # <<>>

\* The credential field of the provider the selected model belongs to is empty.
CredentialMissing ==
  \/ selectedModel \in GeminiModels /\ apiKeyGemini = ""
  \/ StartsWith(selectedModel, <<"g","p","t">>) /\ apiKeyOpenAI = ""

\* C2 as stated: for every model and operation, a click while the selected
\* model's provider has an empty credential sets a precondition error and
\* sends no request.
C2_AsStated ==
  [][\A key \in Ops :
       (CredentialMissing /\ Click(key)) =>
         /\ error' \in {TitleError, OpenAIKeyError}
         /\ InFlight' = InFlight]_vars

\* C2 (amended): a click while a gpt-* model is selected and the OpenAI key
\* is empty sets a precondition error (the title error when the title is
\* empty too, else the OpenAI key error), sends no request and sets no busy
\* flag; a click while a gemini-* model is selected and the title is not
\* empty starts the run and sends its request whatever the Gemini key is.
C2_OnlyOpenAIKeyIsChecked ==
  [][\A key \in Ops :
       /\ (StartsWith(selectedModel, <<"g","p","t">>) /\ apiKeyOpenAI = "" /\ Click(key)) =>
            /\ error' = (IF bookTitle = "" THEN TitleError ELSE OpenAIKeyError)
            /\ InFlight' = InFlight
            /\ loading' = loading
       /\ (selectedModel \in GeminiModels /\ bookTitle # "" /\ Click(key)) =>
            /\ error' = NoError
            /\ loading'[key]
            /\ requests' # requests
            /\ requests \subseteq requests']_vars

\* The OpenAI key error is on screen for each gpt-* model in turn.
C2_Witness ==
  /\ selectedModel = GptThinking
  /\ apiKeyOpenAI = ""
  /\ apiKeyGemini # ""
  /\ bookTitle # ""
  /\ error = OpenAIKeyError
  /\ outline # <<>>
  /\ runsLeft = 0

\* The outline stored from a response: as many items, same titles in the
\* same order, the item at 0-based position i carrying index i.
StoredFrom(stored, result) ==
  /\ Len(stored) = Len(result)
  /\ \A i \in 1..Len(result) :
       /\ stored[i].title = result[i].title
       /\ stored[i].index = i - 1

\* C10: whenever an outline is stored from a response of N items, by outline
\* generation or by the outline step of script generation, it has N items in
\* response order and the item at 0-based position i has index i.
C10_StoredOutlineIsIndexedInOrder ==
  [][\A result \in OutlineResponses :
       (OutlineResolvedWith(result) \/ ScriptOutlineResolvedWith(result)) =>
         StoredFrom(outline', result)]_vars

\* A stored outline of the longest length with two different titles.
C10_Witness ==
  /\ Len(outline) = MaxOutlineLen
  /\ outline[1].title # outline[Len(outline)].title
  /\ scriptBlocks = <<>>
  /\ ~loading["script"]

\* One block per item of ol, in order, indices 1..N, chapters the items' titles.
BlocksMatch(blocks, ol) ==
  /\ Len(blocks) = Len(ol)
  /\ \A i \in 1..Len(ol) :
       /\ blocks[i].index = i
       /\ blocks[i].chapter = ol[i].title

\* The step in which a script generation run returns without error.
ScriptCompleted ==
  /\ ScriptBlockResolved \/ ScriptOutlineResolved
  /\ ~loading'["script"]

\* C3 as stated: when a script generation run completes without error the
\* script block list matches, item by item, the outline held in state, in
\* every interleaving with outline generation.
C3_AsStated ==
  [][ScriptCompleted => BlocksMatch(scriptBlocks', outline')]_vars

\* C3 (amended): when a script generation run completes without error the
\* script block list holds one block per item of the outline the run
\* iterated (the outline in state at the click or, if that was empty, the
\* one the run generated), in order, with indices 1..N and the items' titles
\* as chapters.  The run iterates the outline that is in state when its loop
\* starts and keeps iterating it; during the loop the outline in state is
\* changed only by the completion of an outline generation.
C3_BlocksMatchIteratedOutline ==
  [][/\ ScriptCompleted =>
          BlocksMatch(scriptBlocks',
                      IF scriptRun.pc = "block" THEN scriptRun.currentOutline ELSE outline')
     /\ (scriptRun.pc # "block" /\ scriptRun'.pc = "block") =>
          outline' = scriptRun'.currentOutline
     /\ (scriptRun.pc = "block" /\ scriptRun'.pc = "block") =>
          scriptRun'.currentOutline = scriptRun.currentOutline
     /\ (scriptRun.pc = "block" /\ outline' # outline) => OutlineResolved]_vars

\* A script run has completed with two blocks of different chapters.
C3_Witness ==
  /\ ~loading["script"]
  /\ error = NoError
  /\ Len(scriptBlocks) = 2
  /\ scriptBlocks[1].chapter # scriptBlocks[2].chapter
  /\ BlocksMatch(scriptBlocks, outline)

BlockRequestsInFlight == {r \in requests : r.fn = "generateScriptBlock"}

IsBlockRequest(r) == r.fn = "generateScriptBlock"

\* The block requests for the first n items of ol, in order.
BlockRequestsFor(ol, n, target) == [i \in 1..n |-> BlockRequest(ol[i], target)]

\* C4: during a script generation run at most one script-block request is
\* in flight, the block requests sent so far are those of the first items of
\* the iterated outline in order, and the request for an item is in flight
\* only when the responses for all items before it have been appended.
C4_OneBlockRequestAtATimeInOrder ==
  /\ Cardinality(BlockRequestsInFlight) <= 1
  /\ scriptRun.pc # "block" => BlockRequestsInFlight = {}
  /\ scriptRun.pc = "block" =>
       /\ scriptRun.pos \in 1..Len(scriptRun.currentOutline)
       /\ BlockRequestsInFlight
            = {BlockRequest(scriptRun.currentOutline[scriptRun.pos], scriptRun.charsPerBlock)}
       /\ SelectSeq(scriptRun.sent, IsBlockRequest)
            = BlockRequestsFor(scriptRun.currentOutline, scriptRun.pos, scriptRun.charsPerBlock)
       /\ Len(scriptBlocks) = scriptRun.pos - 1

\* The request for the second item is in flight.
C4_Witness ==
  /\ scriptRun.pc = "block"
  /\ scriptRun.pos = 2
  /\ Len(scriptBlocks) = 1

IsPrefix(s, t) == Len(s) <= Len(t) /\ SubSeq(t, 1, Len(s)) = s

\* C5: a script generation run empties the block list as it starts; each
\* block response appends exactly one block; while the run awaits item
\* pos the list is the blocks 1..pos-1 of the run in order; and no step
\* other than the start of a run removes or changes a block of the list.
C5_BlocksGrowOneAtATime ==
  [][/\ (ClickScript /\ loading'["script"] /\ ~loading["script"]) => scriptBlocks' = <<>>
     /\ ScriptBlockResolved =>
          /\ Len(scriptBlocks') = Len(scriptBlocks) + 1
          /\ IsPrefix(scriptBlocks, scriptBlocks')
     /\ ~ScriptBlockResolved /\ ~ClickScript => scriptBlocks' = scriptBlocks
     /\ scriptRun'.pc = "block" =>
          /\ Len(scriptBlocks') = scriptRun'.pos - 1
          /\ BlocksMatch(scriptBlocks',
                         SubSeq(scriptRun'.currentOutline, 1, scriptRun'.pos - 1))]_vars

\* A second run has emptied the list of the first and has appended one block.
C5_Witness ==
  /\ scriptRun.pc = "block"
  /\ atClick.scriptBlocks # <<>>
  /\ Len(scriptBlocks) = 1
  /\ Len(scriptRun.currentOutline) = 2

ScriptRequests(rs) == {r \in rs : r.op = "script"}

\* C6: when the request for block k fails, the blocks 1..k-1 stay in the
\* list, the error message of the script operation is set, its busy flag is
\* cleared and no request of the run is left or sent; requests of script
\* generation are in flight only while its busy flag is set, so nothing is
\* sent for the later items and nothing is retried.
C6_BlockFailureAbortsRun ==
  [][/\ ScriptBlockRejected =>
          /\ scriptBlocks' = scriptBlocks
          /\ Len(scriptBlocks') = scriptRun.pos - 1
          /\ error' = RunError("script")
          /\ ~loading'["script"]
          /\ ScriptRequests(requests') = {}
          /\ scriptRun'.pc = "idle"
     /\ ScriptRequests(requests') # {} => loading'["script"]
     /\ ~loading["script"] /\ ~ClickScript => ScriptRequests(requests') = {}]_vars

\* The second block of a run failed and the first block is still listed.
C6_Witness ==
  /\ ~loading["script"]
  /\ error = RunError("script")
  /\ Len(scriptBlocks) = 1
  /\ Len(outline) = 2

\* C7: a script generation run clicked while the outline is empty sends
\* exactly one outline request, before any block request, stores the indexed
\* response as the outline and iterates it, one block request per item;
\* clicked while the outline is not empty it sends no outline request,
\* iterates the outline of the click and never writes the outline.
C7_OutlineEnsuredOnce ==
  [][/\ scriptRun'.pc # "idle" =>
          IF scriptRun'.outline = <<>>
          THEN /\ Len(scriptRun'.sent) >= 1
               /\ scriptRun'.sent[1] = ScriptOutlineRequest
               /\ Tail(scriptRun'.sent)
                    = BlockRequestsFor(scriptRun'.currentOutline, scriptRun'.pos,
                                       scriptRun'.charsPerBlock)
          ELSE /\ scriptRun'.currentOutline = scriptRun'.outline
               /\ scriptRun'.sent = BlockRequestsFor(scriptRun'.currentOutline, scriptRun'.pos,
                                                     scriptRun'.charsPerBlock)
     /\ (ClickScript /\ loading'["script"] /\ ~loading["script"]) =>
          /\ scriptRun'.outline = outline
          /\ (ScriptOutlineRequest \in requests') = (outline = <<>>)
     /\ \A result \in OutlineResponses :
          ScriptOutlineResolvedWith(result) =>
            /\ scriptRun.outline = <<>>
            /\ StoredFrom(outline', result)
            /\ scriptRun'.pc = "block" => scriptRun'.currentOutline = outline'
            /\ ScriptOutlineRequest \notin requests'
     /\ (ScriptBlockResolved /\ ~loading'["script"]) =>
          scriptRun.pos = Len(scriptRun.currentOutline)
     /\ (ClickScript \/ ScriptBlockResolved \/ ScriptBlockRejected \/ ScriptOutlineRejected) =>
          outline' = outline]_vars

\* A run clicked with an empty outline has stored a two-item outline and
\* has sent the outline request and then both block requests.
C7_Witness ==
  /\ scriptRun.pc = "block"
  /\ scriptRun.outline = <<>>
  /\ Len(scriptRun.sent) = 3
  /\ outline = scriptRun.currentOutline

\* C8: prompt generation sends both requests at the click and writes
\* neither list until both are fulfilled, then both together: the two lists
\* always come from the same run, they keep the values of the click while
\* the run is in flight, a rejection of either request leaves both as they
\* were at the click and sets the error message once, and the end of the
\* request left behind sets nothing.
C8_PromptsJoin ==
  [][/\ promptsOrigin'.video = promptsOrigin'.thumbs
     /\ loading'["prompts"] =>
          /\ videoPrompts' = atClick'.videoPrompts
          /\ thumbTextIdeas' = atClick'.thumbTextIdeas
     /\ (ClickPrompts /\ loading'["prompts"] /\ ~loading["prompts"]) =>
          PromptRequests \subseteq requests'
     /\ PromptsRejected =>
          /\ videoPrompts' = atClick.videoPrompts
          /\ thumbTextIdeas' = atClick.thumbTextIdeas
          /\ error' = RunError("prompts")
          /\ ~loading'["prompts"]
     /\ AbandonedSettled => (error' = error /\ results' = results /\ loading' = loading)
     /\ (videoPrompts' # videoPrompts \/ thumbTextIdeas' # thumbTextIdeas) =>
          /\ VideoPromptsResolved \/ ThumbIdeasResolved
          /\ ~loading'["prompts"]
          /\ videoPrompts' \in VideoResponses
          /\ thumbTextIdeas' \in ThumbResponses]_vars

\* A prompt run failed after an earlier one had filled both lists, and the
\* request it left behind is still in flight.
C8_Witness ==
  /\ ~loading["prompts"]
  /\ error = RunError("prompts")
  /\ videoPrompts # <<>>
  /\ thumbTextIdeas # <<>>
  /\ abandoned # {}

\* The step in which a run of the operation fails.
Rejected(key) ==
  CASE key = "outline" -> OutlineRejected
    [] key = "seo"     -> SEORejected
    [] key = "prompts" -> PromptsRejected
    [] key = "script"  -> ScriptOutlineRejected \/ ScriptBlockRejected

\* A result that had been computed at the click is still the result.
StillThere(atTheClick, now, none) == atTheClick # none => now = atTheClick

\* C9 as stated: when a run fails, its busy flag is cleared and every result
\* that had been computed before the run was clicked is still there,
\* unchanged: the failing step changes no result field, and the fields only
\* this operation writes hold what they held at the click.
C9_AsStated ==
  [][\A key \in Ops :
       Rejected(key) =>
         /\ ~loading'[key]
         /\ results' = results
         /\ key = "seo" => StillThere(atClick.seo, seo', NoSeo)
         /\ key = "prompts" => /\ StillThere(atClick.videoPrompts, videoPrompts', <<>>)
                               /\ StillThere(atClick.thumbTextIdeas, thumbTextIdeas', <<>>)
         /\ key = "script" => StillThere(atClick.scriptBlocks, scriptBlocks', <<>>)]_vars

\* C9 (amended): when a run fails, its busy flag is cleared, the other busy
\* flags are untouched and the failing step changes no result field; a
\* failed SEO or prompt run leaves its own fields as they were at the click;
\* a failed script run has emptied the block list when it started, so the
\* list holds only the blocks this run appended before it failed, not the
\* blocks computed before it.
C9_FailureClearsBusyKeepsResults ==
  [][\A key \in Ops :
       Rejected(key) =>
         /\ loading[key]
         /\ loading' = [loading EXCEPT ![key] = FALSE]
         /\ results' = results
         /\ key = "seo" => seo' = atClick.seo
         /\ key = "prompts" => /\ videoPrompts' = atClick.videoPrompts
                               /\ thumbTextIdeas' = atClick.thumbTextIdeas
         /\ key = "script" =>
              /\ Len(scriptBlocks') = (IF scriptRun.pc = "block" THEN scriptRun.pos - 1 ELSE 0)
              /\ BlocksMatch(scriptBlocks', SubSeq(scriptRun.currentOutline, 1, Len(scriptBlocks')))]_vars

\* The second of two SEO runs failed and the result of the first is shown.
C9_Witness ==
  /\ ~loading["seo"]
  /\ error = RunError("seo")
  /\ seo # NoSeo
  /\ runsLeft = 0

\* C11: in every reachable state every block of the script block list holds
\* a text the service returned and has chars equal to the length of that
\* text (text.length), whatever character target was requested for it.
C11_CharsIsLengthOfText ==
  \A i \in 1..Len(scriptBlocks) :
    /\ scriptBlocks[i].text \in ScriptTexts
    /\ scriptBlocks[i].chars = Len(scriptBlocks[i].text)

\* Two blocks of one run, requested with the same target, whose texts have
\* different lengths, none of them the target.
C11_Witness ==
  /\ Len(scriptBlocks) = 2
  /\ scriptBlocks[1].chars = 8
  /\ scriptBlocks[2].chars = 0
  /\ scriptRun.pc = "idle"
  /\ error = NoError

\* r is total / n rounded to the nearest integer, a half rounded up.
Rounded(r, total, n) == 2 * n * r - n <= 2 * total /\ 2 * total < 2 * n * r + n

\* C12: every block request in flight carries the character target
\* round(durationMin * 1000 / N), durationMin (5..240) being the duration when
\* the run was clicked and N the number of items of the outline the run
\* iterates; all block requests of the run carry the same target; and for 240
\* minutes and 12 items the target is 20000.
C12_TargetIsRoundedEvenShare ==
  /\ \A r \in requests :
       r.fn = "generateScriptBlock" =>
         /\ atClick.durationMin \in 5..240
         /\ Len(scriptRun.currentOutline) > 0
         /\ Rounded(r.targetChars, atClick.durationMin * 1000, Len(scriptRun.currentOutline))
         /\ (atClick.durationMin = 240 /\ Len(scriptRun.currentOutline) = 12) =>
              r.targetChars = 20000
  /\ \A i, j \in 1..Len(scriptRun.sent) :
       (scriptRun.sent[i].fn = "generateScriptBlock" /\ scriptRun.sent[j].fn = "generateScriptBlock") =>
         scriptRun.sent[i].targetChars = scriptRun.sent[j].targetChars

\* The request for the last of 12 blocks of a run clicked at 240 minutes is
\* in flight with target 20000, the duration field edited since the click.
C12_Witness ==
  /\ scriptRun.pc = "block"
  /\ scriptRun.pos = 12
  /\ Len(scriptRun.currentOutline) = 12
  /\ atClick.durationMin = 240
  /\ durationMin = 5
  /\ Awaited(scriptRun).targetChars = 20000
  /\ Awaited(scriptRun) \in requests

\* C13 as stated: in every interleaving each result field changes only in a
\* step of the operation that owns it: the outline in a step of outline
\* generation, the block list in a step of script generation, the SEO result
\* in a step of SEO generation, the two prompt lists in a step of prompt
\* generation.
C13_AsStated ==
  [][/\ outline' # outline => OutlineOp
     /\ scriptBlocks' # scriptBlocks => ScriptOp
     /\ seo' # seo => SeoOp
     /\ (videoPrompts' # videoPrompts \/ thumbTextIdeas' # thumbTextIdeas) => PromptsOp]_vars

\* C13 (amended): in every interleaving the block list changes only at the
\* click of script generation and at its block responses, the SEO result
\* only at the SEO response, the two prompt lists only at a response of
\* prompt generation; the outline changes at the response of outline
\* generation and also at the outline response of a script generation run
\* that was clicked while the outline was empty, and in no other step.
C13_FieldsWrittenByTheirOperations ==
  [][/\ outline' # outline =>
          \/ OutlineResolved
          \/ ScriptOutlineResolved /\ scriptRun.outline = <<>> /\ scriptRun.pc = "outline"
     /\ scriptBlocks' # scriptBlocks => (ClickScript \/ ScriptBlockResolved)
     /\ seo' # seo => SEOResolved
     /\ (videoPrompts' # videoPrompts \/ thumbTextIdeas' # thumbTextIdeas) =>
          (VideoPromptsResolved \/ ThumbIdeasResolved)]_vars

\* A script generation run has stored the outline it generated, with an SEO
\* result of another run on screen.
C13_Witness ==
  /\ scriptRun.pc = "block"
  /\ scriptRun.outline = <<>>
  /\ outline # <<>>
  /\ outline = scriptRun.currentOutline
  /\ seo # NoSeo

\* The key typed into the field of the provider a model belongs to.
CredentialFor(model) ==
  IF StartsWith(model, <<"g","p","t">>) THEN apiKeyOpenAI ELSE apiKeyGemini

\* C14 as stated: every request a click of one of the four operations sends
\* to the service is made with the model selected at the click and with the
\* key typed for that model's provider.
C14_AsStated ==
  [][\A key \in Ops :
       Click(key) =>
         \A r \in requests' \ requests :
           /\ r.model = selectedModel
           /\ r.apiKey = CredentialFor(selectedModel)]_vars

\* A reader of the format the claim describes: rows separated by CRLF, fields
\* by commas, every field between double quotes, a doubled quote inside a
\* field standing for one quote.
Malformed == <<<<<<"?">>>>>>

\* The position of the quote that closes the field whose text starts at i.
RECURSIVE FieldEnd(_, _)
FieldEnd(s, i) ==
  IF i > Len(s) THEN 0
  ELSE IF s[i] # Quote THEN FieldEnd(s, i + 1)
  ELSE IF i < Len(s) /\ s[i + 1] = Quote THEN FieldEnd(s, i + 2)
  ELSE i

RECURSIVE Undoubled(_)
Undoubled(t) ==
  IF t = <<>> THEN <<>>
  ELSE IF Head(t) = Quote THEN <<Quote>> \o Undoubled(Tail(Tail(t)))
  ELSE <<Head(t)>> \o Undoubled(Tail(t))

RECURSIVE ReadCsv(_, _, _, _)
ReadCsv(s, i, row, rows) ==
  IF i > Len(s) \/ s[i] # Quote THEN Malformed
  ELSE LET e == FieldEnd(s, i + 1)
       IN  IF e = 0 THEN Malformed
           ELSE LET fields == Append(row, Undoubled(SubSeq(s, i + 1, e - 1)))
                IN  IF e = Len(s) THEN Append(rows, fields)
                    ELSE IF s[e + 1] = Comma THEN ReadCsv(s, e + 2, fields, rows)
                    ELSE IF e + 2 <= Len(s) /\ s[e + 1] = CR /\ s[e + 2] = LF
                         THEN ReadCsv(s, e + 3, <<>>, Append(rows, fields))
                    ELSE Malformed

\* The table of the claim's example and the content expected for it.
ExampleRows == << <<<<"a">>, <<"b">>>>, <<<<"c", Comma, "d">>, <<"e", Quote, "f">>>> >>

ExampleContent ==
  <<BOM, Quote, "a", Quote, Comma, Quote, "b", Quote, CR, LF,
    Quote, "c", Comma, "d", Quote, Comma, Quote, "e", Quote, Quote, "f", Quote>>

\* C15: the content downloadCSV builds from a table starts with the byte
\* order mark, does not end with CRLF, and after the mark reads back, as rows
\* separated by CRLF of comma-separated fields in double quotes with doubled
\* inner quotes, to exactly the table given; the table of the example gives
\* "a","b" CRLF "c,d","e""f".
C15_CsvContentIsQuotedRows ==
  csv.content # <<>> =>
    /\ Head(csv.content) = BOM
    /\ BOM \notin {csv.content[i] : i \in 2..Len(csv.content)}
    /\ csv.content[Len(csv.content)] = Quote
    /\ ReadCsv(Tail(csv.content), 1, <<>>, <<>>) = csv.rows
    /\ csv.rows = ExampleRows => csv.content = ExampleContent

\* The table of the example has been exported.
C15_Witness ==
  /\ csv.rows = ExampleRows
  /\ csv.content = ExampleContent

\* The maximal runs of letters and digits of s, in order.
RECURSIVE Words(_, _)
Words(s, word) ==
  IF s = <<>> THEN (IF word = <<>> THEN <<>> ELSE <<word>>)
  ELSE IF IsAlnum(Head(s)) THEN Words(Tail(s), Append(word, Head(s)))
  ELSE (IF word = <<>> THEN <<>> ELSE <<word>>) \o Words(Tail(s), <<>>)

\* s in lower case, decomposed, without its diacritics.
Plain(s) == StripDiacritics(normalizeNFD(toLowerCase(s)))

\* C16: the result of slugify is the maximal runs of a-z and 0-9 of its
\* lowercased input without diacritics, joined by single hyphens, so it
\* neither begins nor ends with a hyphen; the empty string gives the default
\* slug "ndgroup" and "Nha Gia Kim" with its accents gives "nha-gia-kim".
C16_SlugIsWordsJoinedByHyphens ==
  slug.returned =>
    /\ slug.result = join(Words(Plain(IF slug.s = <<>> THEN ndgroup ELSE slug.s), <<>>), <<Hyphen>>)
    /\ slug.result # <<>> =>
         (Head(slug.result) # Hyphen /\ slug.result[Len(slug.result)] # Hyphen)
    /\ \A i \in 1..Len(slug.result) : slug.result[i] \in Letters \cup Digits \cup {Hyphen}
    /\ slug.s = <<>> => slug.result = ndgroup
    /\ slug.s = NhaGiaKim =>
         slug.result = <<"n","h","a",Hyphen,"g","i","a",Hyphen,"k","i","m">>

\* The example has been slugified.
C16_Witness ==
  /\ slug.returned
  /\ slug.s = NhaGiaKim
  /\ slug.result = <<"n","h","a",Hyphen,"g","i","a",Hyphen,"k","i","m">>

\* C17: the two stored items change only in the save action, which stores
\* the two keys in memory as they are and changes nothing in memory; typing
\* into a key field and every step of a generation operation leave the
\* storage as it is; and a page load after a save puts exactly the two
\* saved values into the two keys in memory.
C17_StorageChangesOnlyOnSave ==
  [][/\ localStorage' # localStorage => handleSaveKeys
     /\ handleSaveKeys =>
          /\ localStorage'.nd_gemini_api_key = apiKeyGemini
          /\ localStorage'.nd_openai_api_key = apiKeyOpenAI
          /\ <<apiKeyGemini', apiKeyOpenAI'>> = <<apiKeyGemini, apiKeyOpenAI>>
     /\ (SetApiKeyGemini \/ SetApiKeyOpenAI \/ Generate) => localStorage' = localStorage
     /\ (Reload /\ localStorage # NoItems) =>
          /\ apiKeyGemini' = localStorage.nd_gemini_api_key
          /\ apiKeyOpenAI' = localStorage.nd_openai_api_key
          /\ localStorage' = localStorage]_vars

\* After a save of a Gemini key and an empty OpenAI key the page was loaded
\* again, and a run is in flight with the loaded keys.
C17_Witness ==
  /\ atClick.reloaded
  /\ localStorage = [nd_gemini_api_key |-> "sk-key", nd_openai_api_key |-> ""]
  /\ apiKeyGemini = "sk-key"
  /\ apiKeyOpenAI = ""
  /\ loading["seo"]

\* The steps of each operation.
Op(key) ==
  CASE key = "outline" -> OutlineOp
    [] key = "seo"     -> SeoOp
    [] key = "prompts" -> PromptsOp
    [] key = "script"  -> ScriptOp

\* C18: whether a click of an operation passes the gate and starts a run
\* depends on that operation's own busy flag and on the gate's checks, not
\* on the busy flags of the other three; and every step changes at most one
\* busy flag, the flag of the operation the step belongs to, leaving the
\* other three as they are, whatever runs are in flight.
C18_BusyFlagsAreIndependent ==
  /\ [](\A key \in Ops :
          (~loading[key] /\ Gate = NoError /\ runsLeft > 0) =>
            ENABLED (Click(key) /\ loading'[key]))
  /\ [][\A key \in Ops :
          /\ (Click(key) /\ Gate = NoError) => loading' = [loading EXCEPT ![key] = TRUE]
          /\ loading'[key] # loading[key] =>
                /\ Op(key)
                /\ loading' = [loading EXCEPT ![key] = ~loading[key]]]_vars

\* All four operations are in flight together, script generation at its
\* outline request.
C18_Witness ==
  /\ loading = [op \in Ops |-> TRUE]
  /\ {OutlineRequest, ScriptOutlineRequest, SeoRequest} \subseteq requests
  /\ runsLeft = 0

\* C19: a request of an operation is in flight only while that operation's
\* busy flag is set, and a click that passes the gate sets the flag in the
\* step that sends the first request; if every awaited request is at some
\* time fulfilled or rejected, a busy flag that is set is cleared later, after
\* success and after failure; and an operation whose flag is clear can be
\* clicked (as long as the session goes on).
C19_BusyFlagIsEventuallyCleared ==
  /\ \A key \in Ops : loading[key] ~> ~loading[key]
  /\ [](\A r \in requests : loading[r.op])
  /\ [](\A key \in Ops : (~loading[key] /\ runsLeft > 0) => ENABLED Click(key))
  /\ [][\A key \in Ops :
          /\ (Click(key) /\ Gate = NoError) =>
                (loading'[key] /\ \E r \in requests' \ requests : r.op = key)
          /\ Rejected(key) => ~loading'[key]]_vars

\* Two runs have ended, one with a result and one with a failure, and no
\* busy flag is left set.
C19_Witness ==
  /\ loading = INITIAL_LOADING_STATES
  /\ error = RunError("outline")
  /\ seo # NoSeo
  /\ outline = <<>>
  /\ runsLeft = 0

\* A run of the operation is in flight: its handler is at an await.
RunInFlight(key) ==
  CASE key = "outline" -> OutlineRequest \in requests
    [] key = "seo"     -> SeoRequest \in requests
    [] key = "prompts" -> promptsRun.pc = "await" /\ requests \cap PromptRequests # {}
    [] key = "script"  -> scriptRun.pc # "idle" /\ ScriptRequests(requests) # {}

\* The requests an operation's handlers await.
AwaitedBy(key) == {r \in requests : r.op = key}

\* C20: in every reachable state an operation's busy flag is set exactly
\* when a run of it is in flight, the requests awaited are those of one run
\* (one request, two for prompt generation), and no click of an operation is
\* taken while its busy flag is set.
C20_BusyExactlyWhileInFlight ==
  /\ [](\A key \in Ops :
          /\ loading[key] <=> RunInFlight(key)
          /\ loading[key] <=> AwaitedBy(key) # {}
          /\ Cardinality(AwaitedBy(key)) <= (IF key = "prompts" THEN 2 ELSE 1))
  /\ [][\A key \in Ops : Click(key) => ~loading[key]]_vars

\* Script generation is busy at a block request, with a run left in the
\* session that its button does not take.
C20_Witness ==
  /\ loading["script"]
  /\ scriptRun.pc = "block"
  /\ runsLeft = 1
  /\ ~loading["outline"]

\* C21: when script generation was started with an empty outline and its
\* outline request is answered with zero items, the step sends no request
\* (the run has sent the outline request and nothing else), ends the run,
\* leaves the block list empty, stores the empty outline, leaves the error
\* message as it is and clears the script busy flag; the per-block target of that run
\* is its total divided by zero, which is no number of characters.
C21_ZeroItemOutlineEndsRunQuietly ==
  [][ScriptOutlineResolvedWith(<<>>) =>
        /\ scriptRun.outline = <<>>
        /\ scriptRun.sent = <<ScriptOutlineRequest>>
        /\ requests' = requests \ {ScriptOutlineRequest}
        /\ ScriptRequests(requests') = {}
        /\ scriptRun' = IdleScriptRun
        /\ scriptBlocks = <<>> /\ scriptBlocks' = <<>>
        /\ outline' = <<>>
        /\ error' = error
        /\ loading["script"] /\ ~loading'["script"]
        /\ scriptRun.totalCharsTarget > 0
        /\ CharsPerBlock(scriptRun.totalCharsTarget, Len(outline')) = Infinity]_vars

\* The one run of the session, started with no outline stored, is over:
\* the outline and the block list are empty and no error is shown.
C21_Witness ==
  /\ bookTitle # ""
  /\ runsLeft = 0
  /\ scriptRun = IdleScriptRun
  /\ requests = {}
  /\ ~loading["script"]
  /\ outline = <<>>
  /\ scriptBlocks = <<>>
  /\ error = NoError

\* The step in which a request a run of the operation awaits is fulfilled.
Resolved(key) ==
  CASE key = "outline" -> OutlineResolved
    [] key = "seo"     -> SEOResolved
    [] key = "prompts" -> VideoPromptsResolved \/ ThumbIdeasResolved
    [] key = "script"  -> ScriptOutlineResolved \/ ScriptBlockResolved

\* C22: the one error message changes only in a click of some operation,
\* to the gate's message when the gate turns the click away and to none when
\* the click passes the gate, or in the failure of a run of some operation,
\* to that operation's message; every such step writes it so, whatever
\* operation wrote it before; and no step in which a request is fulfilled,
\* the one that ends a run included, changes it.
C22_ErrorMessageIsShared ==
  [][/\ error' # error =>
          \E key \in Ops :
            \/ Click(key) /\ Gate # NoError /\ error' = Gate
            \/ Click(key) /\ Gate = NoError /\ error' = NoError
            \/ Rejected(key) /\ error' = RunError(key)
     /\ \A key \in Ops :
          /\ (Click(key) /\ Gate # NoError) => error' = Gate
          /\ (Click(key) /\ Gate = NoError) => error' = NoError
          /\ Rejected(key) => error' = RunError(key)
          /\ Resolved(key) => error' = error
     /\ AbandonedSettled => error' = error]_vars

\* The message of a failed SEO run is shown while outline generation, which
\* was clicked before that failure, is in flight, and the outline request
\* can be fulfilled, ending the run, with the message still shown.
C22_Witness ==
  /\ error = RunError("seo")
  /\ loading["outline"]
  /\ ~loading["seo"]
  /\ ENABLED (OutlineResolved /\ ~loading'["outline"] /\ error' = RunError("seo"))

\* C23: whatever string slugify is called with, its result is not empty,
\* is made of the characters a-z, 0-9 and hyphen only, and has no two
\* hyphens in a row.
C23_AsStated ==
  slug.returned =>
    /\ slug.result # <<>>
    /\ \A i \in 1..Len(slug.result) : slug.result[i] \in Letters \cup Digits \cup {Hyphen}
    /\ \A i \in 1..(Len(slug.result) - 1) :
         ~(slug.result[i] = Hyphen /\ slug.result[i + 1] = Hyphen)

====
